---- MODULE Spec2Model ----
(***************************************************************************)
(* htmls-to-datasette: the index / purge / extract / search commands of    *)
(* src/htmls_to_datasette/cli.py, run one after the other against one      *)
(* SQLite store and one filesystem that changes between the commands.      *)
(*                                                                         *)
(* Representation.  A character is a one-character string ("CR" and "LF"   *)
(* stand for the carriage return and the line feed).  A file name, a file's*)
(* bytes and a text are sequences of characters.  A path is the sequence   *)
(* of its components (pathlib's parts); an absolute path starts with the   *)
(* anchor SLASH.  str(path) is one-to-one on such paths, so the parts      *)
(* stand for the string as well.  A nullable column holds <<>> for NULL    *)
(* and <<v>> for the value v.  The store is the table `files` (db, its     *)
(* rows in rowid order) and the full-text table `files_fts` (fts, one      *)
(* entry per indexed rowid).                                               *)
(*                                                                         *)
(* Scope.  Files hold text that decodes under the locale's encoding; the   *)
(* platform is POSIX (os.linesep is "\n"); md5 is taken as collision-free  *)
(* on the paths of the model; every command runs to completion alone (no   *)
(* filesystem change while a command runs).                                *)
(***************************************************************************)
EXTENDS Integers, Sequences, FiniteSets, TLC

VARIABLES fs, db, fts, today, last, ncmd, nfs

vars == <<fs, db, fts, today, last, ncmd, nfs>>

---------------------------------------------------------------------------
(* Bounds of the model                                                     *)

MaxCmds == 3        \* commands in one run
MaxFsOps == 2       \* filesystem changes in one run
MaxTicks == 1       \* midnights passed in one run

---------------------------------------------------------------------------
(* Characters, names and paths                                             *)

SLASH == <<"/">>

n_w == <<"w">>
n_r == <<"r">>
n_s == <<"s">>
n_o == <<"o">>
n_a_html == <<"a", ".", "h", "t", "m", "l">>
n_b_HTM == <<"b", ".", "H", "T", "M">>
n_c_txt == <<"c", ".", "t", "x", "t">>

\* the working directory of every command
Cwd == <<SLASH, n_w>>

\* str.lower(), on the characters of the model
LowerChar(c) ==
    CASE c = "H" -> "h"
      [] c = "T" -> "t"
      [] c = "M" -> "m"
      [] c = "L" -> "l"
      [] OTHER -> c

Lower(s) == [i \in 1..Len(s) |-> LowerChar(s[i])]

\* PurePath.name
PathName(p) == IF Len(p) = 0 THEN <<>> ELSE p[Len(p)]

\* PurePath.parent
PathParent(p) == IF Len(p) <= 1 THEN (IF Len(p) = 1 /\ p[1] = SLASH THEN p ELSE <<>>)
                 ELSE SubSeq(p, 1, Len(p) - 1)

\* PurePath.joinpath / the paths iterdir() yields
JoinPath(d, name) == Append(d, name)

\* Path.absolute(), and the resolution the OS applies to a relative path
Absolute(p) == IF Len(p) > 0 /\ p[1] = SLASH THEN p ELSE Cwd \o p

\* PurePath.suffix: from the last dot of the name, unless the name starts or
\* ends with that dot
Suffix(name) ==
    LET dots == {i \in 1..Len(name) : name[i] = "."}
    IN  IF dots = {} THEN <<>>
        ELSE LET k == CHOOSE i \in dots : \A j \in dots : j <= i
             IN  IF 1 < k /\ k < Len(name) THEN SubSeq(name, k, Len(name)) ELSE <<>>

ACCEPTABLE_HTML_EXTENSIONS == {<<".", "h", "t", "m", "l">>, <<".", "h", "t", "m">>}

---------------------------------------------------------------------------
(* The filesystem: every node of the model's namespace is absent, a        *)
(* directory or a regular file with its bytes.                             *)

d_r == <<SLASH, n_w, n_r>>
d_s == <<SLASH, n_w, n_r, n_s>>
d_o == <<SLASH, n_w, n_o>>

FixedDirs == {<<SLASH>>, Cwd, d_r}
DirNodes == {d_s, d_o}
FileNodes == {JoinPath(d_r, n_a_html), JoinPath(d_r, n_c_txt),
              JoinPath(d_s, n_a_html), JoinPath(d_s, n_b_HTM),
              JoinPath(d_o, n_a_html), JoinPath(d_o, n_b_HTM)}
Nodes == FixedDirs \cup DirNodes \cup FileNodes

\* the files the environment creates, rewrites and removes
EnvFiles == {JoinPath(d_r, n_a_html), JoinPath(d_s, n_a_html),
             JoinPath(d_s, n_b_HTM), JoinPath(d_o, n_a_html)}

Absent == [kind |-> "absent"]
Dir == [kind |-> "dir"]
File(bytes) == [kind |-> "file", bytes |-> bytes]

\* the bytes a file of the model may hold
Contents == {<<"p">>, <<"q", "CR", "LF", "p">>}

Node(p) == IF Absolute(p) \in Nodes THEN fs[Absolute(p)] ELSE Absent

\* Path.exists(), Path.is_file(), Path.is_dir()
Exists(p) == Node(p).kind # "absent"
IsFile(p) == Node(p).kind = "file"
IsDir(p) == Node(p).kind = "dir"

\* the names directory.iterdir() yields
Listing(directory) ==
    {PathName(n) : n \in {m \in Nodes : /\ Len(m) = Len(Absolute(directory)) + 1
                                        /\ PathParent(m) = Absolute(directory)
                                        /\ fs[m].kind # "absent"}}

IsPrefix(d, p) == Len(d) <= Len(p) /\ SubSeq(p, 1, Len(d)) = d

---------------------------------------------------------------------------
(* Text input and output                                                   *)

\* open(file, "r").read(): universal newlines, "\r\n" and "\r" become "\n"
RECURSIVE ReadText(_)
ReadText(bytes) ==
    IF bytes = <<>> THEN <<>>
    ELSE IF Head(bytes) = "CR"
         THEN IF Len(bytes) >= 2 /\ bytes[2] = "LF"
              THEN <<"LF">> \o ReadText(SubSeq(bytes, 3, Len(bytes)))
              ELSE <<"LF">> \o ReadText(Tail(bytes))
         ELSE <<Head(bytes)>> \o ReadText(Tail(bytes))

\* open(path, "w").write(content): "\n" becomes os.linesep, which is "\n"
WriteText(text) == text

\* html2text.html2text(content): the text of the document, closed by a blank line
html2text(text) == text \o <<"LF", "LF">>

---------------------------------------------------------------------------
(* The clock: datetime.now() is the day `today` counts from the epoch      *)

Epoch == [d |-> 31, m |-> 1, y |-> 2024]

IsLeap(y) == (y % 4 = 0 /\ y % 100 # 0) \/ y % 400 = 0

DaysIn(m, y) ==
    IF m = 2 THEN (IF IsLeap(y) THEN 29 ELSE 28)
    ELSE IF m \in {4, 6, 9, 11} THEN 30 ELSE 31

NextDay(date) ==
    IF date.d < DaysIn(date.m, date.y) THEN [date EXCEPT !.d = date.d + 1]
    ELSE IF date.m < 12 THEN [d |-> 1, m |-> date.m + 1, y |-> date.y]
    ELSE [d |-> 1, m |-> 1, y |-> date.y + 1]

RECURSIVE DateOf(_)
DateOf(n) == IF n = 0 THEN Epoch ELSE NextDay(DateOf(n - 1))

DigitChars == <<"0", "1", "2", "3", "4", "5", "6", "7", "8", "9">>
Digit(n) == DigitChars[n + 1]

\* datetime.strftime("%d-%m-%Y")
Strftime(date) ==
    <<Digit(date.d \div 10), Digit(date.d % 10), "-",
      Digit(date.m \div 10), Digit(date.m % 10), "-",
      Digit(date.y \div 1000), Digit((date.y \div 100) % 10),
      Digit((date.y \div 10) % 10), Digit(date.y % 10)>>

\* the code point of a character of a date string
CharOrd(c) == IF c = "-" THEN 45
              ELSE 48 + (CHOOSE n \in 0..9 : Digit(n) = c)

\* SQLite's BINARY collation on two texts: a < b
TextLess(a, b) ==
    \E k \in 1..(Len(a) + 1) :
        /\ k <= Len(b)
        /\ \A i \in 1..(k - 1) : a[i] = b[i]
        /\ (k = Len(a) + 1 \/ CharOrd(a[k]) < CharOrd(b[k]))

---------------------------------------------------------------------------
(* The store: the rows of table `files` in rowid order                     *)

\* hashlib.md5(path.encode("UTF-8")).hexdigest()
identify(path) == <<"md5", path>>

\* select id from files where path = :path
PathIndexed(rows, path) == \E i \in 1..Len(rows) : rows[i].path = path

\* index_dir hashing the file name where it hashes the path
MakeRowHashingName(file, store_binary) ==
    LET bytes == Node(file).bytes
        content == ReadText(bytes)
    IN  [id |-> identify(PathName(file)),
         name |-> PathName(file),
         size |-> Len(bytes),
         path |-> file,
         added |-> Strftime(DateOf(today)),
         plaintext |-> html2text(content),
         content |-> IF store_binary THEN <<content>> ELSE <<>>]

\* the values index_dir builds for a file (the content key is set only
\* under store_binary: without it the column stays NULL)
MakeRow(file, store_binary) ==
    LET bytes == Node(file).bytes
        content == ReadText(bytes)
    IN  [id |-> identify(file),
         name |-> PathName(file),
         size |-> Len(bytes),
         path |-> file,
         added |-> Strftime(DateOf(today)),
         plaintext |-> html2text(content),
         content |-> IF store_binary THEN <<content>> ELSE <<>>]

\* the rowid SQLite gives a new row of a table with a text primary key:
\* one more than the greatest rowid in the table
NextRowid(rows) == IF rows = <<>> THEN 1 ELSE rows[Len(rows)].rowid + 1

\* the columns of a row that enable_fts(["name", "plaintext-content"]) indexes
FtsEntry(row) == [rowid |-> row.rowid, name |-> row.name, plaintext |-> row.plaintext]

\* enable_fts with create_triggers=False: files_fts is filled when it is
\* created and never again
AfterInsertWithoutTriggers(entries, row) == entries

\* the trigger files_ai that create_triggers=True installs: after an insert
\* on files, the new row's columns go into files_fts under its rowid
AfterInsert(entries, row) == entries \cup {FtsEntry(row)}

\* the trigger files_ad: after a delete on files, the entry of the old
\* row's rowid leaves files_fts
AfterDelete(entries, row) == {e \in entries : e.rowid # row.rowid}

\* Table.insert(values, pk="id"): a second row with the id is refused
\* (sqlite3.IntegrityError), which ends the command
Insert(st, row) ==
    IF \E i \in 1..Len(st.db) : st.db[i].id = row.id
    THEN [st EXCEPT !.failed = TRUE]
    ELSE LET new == [rowid |-> NextRowid(st.db)] @@ row
         IN  [st EXCEPT !.db = Append(st.db, new),
                        !.fts = AfterInsert(st.fts, new)]

\* index_dir counting a file it has met before as indexed again
IndexFileCountingAgain(st, file, store_binary) ==
    IF st.failed THEN st
    ELSE IF ~PathIndexed(st.db, file)
         THEN Insert([st EXCEPT !.indexed = st.indexed + 1], MakeRow(file, store_binary))
         ELSE [st EXCEPT !.indexed = st.indexed + 1]

\* index_dir bringing the row of a file it has met before up to date
IndexFileRefreshing(st, file, store_binary) ==
    IF st.failed THEN st
    ELSE IF ~PathIndexed(st.db, file)
         THEN Insert([st EXCEPT !.indexed = st.indexed + 1], MakeRow(file, store_binary))
         ELSE [st EXCEPT !.already_indexed = st.already_indexed + 1,
                         !.db = [i \in 1..Len(st.db) |->
                                    IF st.db[i].path = file
                                    THEN [rowid |-> st.db[i].rowid] @@ MakeRow(file, store_binary)
                                    ELSE st.db[i]]]

\* one turn of index_dir's loop over files_to_process
IndexFile(st, file, store_binary) ==
    IF st.failed THEN st
    ELSE IF ~PathIndexed(st.db, file)
         THEN Insert([st EXCEPT !.indexed = st.indexed + 1], MakeRow(file, store_binary))
         ELSE [st EXCEPT !.already_indexed = st.already_indexed + 1]

RECURSIVE IndexFiles(_, _, _)
IndexFiles(st, files, store_binary) ==
    IF files = <<>> THEN st
    ELSE IndexFiles(IndexFile(st, Head(files), store_binary), Tail(files), store_binary)

\* the orders in which iterdir() may yield the members of S
RECURSIVE Orders(_)
Orders(S) ==
    IF S = {} THEN {<<>>}
    ELSE UNION {{<<x>> \o o : o \in Orders(S \ {x})} : x \in S}

\* index_dir comparing the suffix as it is spelled
FilesToProcessCaseSensitive(directory) ==
    {JoinPath(directory, name) : name \in
        {n \in Listing(directory) : /\ IsFile(JoinPath(directory, n))
                                    /\ Suffix(n) \in ACCEPTABLE_HTML_EXTENSIONS}}

\* files_to_process of index_dir
FilesToProcess(directory) ==
    {JoinPath(directory, name) : name \in
        {n \in Listing(directory) : /\ IsFile(JoinPath(directory, n))
                                    /\ Lower(Suffix(n)) \in ACCEPTABLE_HTML_EXTENSIONS}}

\* subdirs_to_process of index_dir
SubdirsToProcess(directory) ==
    {JoinPath(directory, name) : name \in
        {n \in Listing(directory) : IsDir(JoinPath(directory, n))}}

\* index_dir: the states it may end in, one per listing order
RECURSIVE index_dir(_, _, _, _)
RECURSIVE IndexSubdirs(_, _, _, _)
index_dir(directory, st, store_binary, recursive) ==
    LET afterFiles == {IndexFiles(st, o, store_binary) : o \in Orders(FilesToProcess(directory))}
    IN  IF recursive
        THEN UNION {IndexSubdirs(o, s, store_binary, recursive) :
                        o \in Orders(SubdirsToProcess(directory)), s \in afterFiles}
        ELSE afterFiles

IndexSubdirs(subdirs, st, store_binary, recursive) ==
    IF subdirs = <<>> THEN {st}
    ELSE UNION {IndexSubdirs(Tail(subdirs), s, store_binary, recursive) :
                    s \in index_dir(Head(subdirs), st, store_binary, recursive)}

\* the loop of index over input_dirs
RECURSIVE IndexRoots(_, _, _, _)
IndexRoots(input_dirs, st, store_binary, recursive) ==
    IF input_dirs = <<>> THEN {st}
    ELSE UNION {IndexRoots(Tail(input_dirs), s, store_binary, recursive) :
                    s \in index_dir(Head(input_dirs), st, store_binary, recursive)}

IndexStats == [indexed |-> 0, already_indexed |-> 0]

---------------------------------------------------------------------------
(* index                                                                   *)

\* the input_dirs a user passes: r and r/s relative to the working
\* directory, one directory, or a directory before the one it is nested in
InputDirLists == {<<<<n_r>>>>, <<<<n_r, n_s>>>>, <<<<n_r, n_s>>, <<n_r>>>>}

\* the same, and a directory passed twice
InputDirListsClock == InputDirLists \cup {<<<<n_r>>, <<n_r>>>>}

\* the spellings of r a user may pass: relative, absolute, both in one
\* command, the directory twice, and the directory before one nested in it
InputDirListsSpelled == {<<<<n_r>>>>, <<d_r>>, <<<<n_r>>, d_r>>,
                         <<<<n_r>>, <<n_r>>>>, <<<<n_r>>, <<n_r, n_s>>>>}

\* the report `report` is of an index command with these very arguments
SameIndex(report, input_dirs, store_binary, recursive) ==
    /\ report.cmd = "index"
    /\ report.input_dirs = input_dirs
    /\ report.store_binary = store_binary
    /\ report.recursive = recursive

\* index: click refuses an input directory that is no existing directory
index(input_dirs, store_binary, recursive) ==
    /\ ncmd < MaxCmds
    /\ \A i \in 1..Len(input_dirs) : IsDir(input_dirs[i])
    /\ \E st \in IndexRoots(input_dirs,
                             [db |-> db, fts |-> fts, indexed |-> IndexStats.indexed,
                              already_indexed |-> IndexStats.already_indexed,
                              failed |-> FALSE],
                             store_binary, recursive) :
          /\ db' = st.db
          /\ fts' = st.fts
          /\ last' = [cmd |-> "index", input_dirs |-> input_dirs,
                      store_binary |-> store_binary, recursive |-> recursive,
                      indexed |-> st.indexed, already_indexed |-> st.already_indexed,
                      failed |-> st.failed,
                      rerun |-> SameIndex(last, input_dirs, store_binary, recursive)]
    /\ ncmd' = ncmd + 1
    /\ UNCHANGED <<fs, today, nfs>>

---------------------------------------------------------------------------
(* purge                                                                   *)

\* Table.delete(id): delete from files where id = :id, and the trigger
\* for the row that goes
Delete(st, id) ==
    LET old == SelectSeq(st.db, LAMBDA r : r.id = id)
    IN  IF old = <<>> THEN st
        ELSE [st EXCEPT !.db = SelectSeq(st.db, LAMBDA r : r.id # id),
                        !.fts = AfterDelete(st.fts, Head(old))]

\* purge's query without its where clause
AllRows(rows) == rows

\* select id, path from files where content is null
NullContentRows(rows) == SelectSeq(rows, LAMBDA r : r.content = <<>>)

\* purge deleting in a dry run as well
RECURSIVE PurgeRowsIgnoringDryRun(_, _, _)
PurgeRowsIgnoringDryRun(st, rows, dry_run) ==
    IF rows = <<>> THEN st
    ELSE LET row == Head(rows)
             next == IF ~Exists(row.path)
                     THEN [Delete(st, row.id) EXCEPT
                              !.missing_files_found = st.missing_files_found + 1]
                     ELSE st
         IN  PurgeRowsIgnoringDryRun(next, Tail(rows), dry_run)

\* the loop of purge over the rows the query yields
RECURSIVE PurgeRows(_, _, _)
PurgeRows(st, rows, dry_run) ==
    IF rows = <<>> THEN st
    ELSE LET row == Head(rows)
             next == IF ~Exists(row.path)
                     THEN [(IF ~dry_run THEN Delete(st, row.id) ELSE st) EXCEPT
                              !.missing_files_found = st.missing_files_found + 1]
                     ELSE st
         IN  PurgeRows(next, Tail(rows), dry_run)

purge(dry_run) ==
    /\ ncmd < MaxCmds
    /\ LET st == PurgeRows([db |-> db, fts |-> fts, missing_files_found |-> 0],
                           NullContentRows(db), dry_run)
       IN  /\ db' = st.db
           /\ fts' = st.fts
           /\ last' = [cmd |-> "purge", dry_run |-> dry_run,
                       missing_files_found |-> st.missing_files_found]
    /\ ncmd' = ncmd + 1
    /\ UNCHANGED <<fs, today, nfs>>

---------------------------------------------------------------------------
(* extract                                                                 *)

\* the --output option: absent, or the directory o
Outputs == {<<>>, <<<<n_o>>>>}

\* select id, path from files where content is not null
ContentRows(rows) == SelectSeq(rows, LAMBDA r : r.content # <<>>)

\* where extract writes a row: output_path/name, or the row's own path
Destination(output, row) ==
    IF output # <<>> THEN JoinPath(output[1], PathName(row.path)) ELSE row.path

\* a classification that takes no destination for present
NeverFound(output, row) == FALSE

\* the first branch of the classification: the destination is there already
AlreadyFound(output, row) ==
    \/ output = <<>> /\ Exists(row.path)
    \/ output # <<>> /\ Exists(JoinPath(output[1], PathName(row.path)))

\* the second branch: no output directory and the parent directory is gone
ParentNotFound(output, row) ==
    /\ ~AlreadyFound(output, row)
    /\ output = <<>> /\ ~Exists(PathParent(row.path))

\* select content from files where id = :id, first row
FetchContent(rows, id) ==
    LET hit == SelectSeq(rows, LAMBDA r : r.id = id) IN Head(hit).content[1]

\* the loop over files_to_extract: open(path, "w") and write, in order
RECURSIVE ExtractRows(_, _, _)
ExtractRows(st, rows, output) ==
    IF rows = <<>> \/ st.failed THEN st
    ELSE LET row == Head(rows)
             dest == Absolute(Destination(output, row))
             next == IF dest \in FileNodes /\ IsDir(PathParent(dest))
                     THEN [st EXCEPT !.fs[dest] = File(WriteText(FetchContent(db, row.id))),
                                     !.written = Append(st.written, dest)]
                     ELSE [st EXCEPT !.failed = TRUE]
         IN  ExtractRows(next, Tail(rows), output)

\* warning_files_found after the classification pass
WarningFilesFound(output) ==
    Len(SelectSeq(ContentRows(db), LAMBDA r : AlreadyFound(output, r)))

\* files_with_parent_directory_not_found after the classification pass
FilesWithParentDirectoryNotFound(output) ==
    SelectSeq(ContentRows(db), LAMBDA r : ParentNotFound(output, r))

\* files_to_extract after the classification pass
FilesToExtract(output) ==
    SelectSeq(ContentRows(db),
              LAMBDA r : ~AlreadyFound(output, r) /\ ~ParentNotFound(output, r))

\* parent_directory_not_found: the set of the orphans' parents
ParentDirectoryNotFound(output) ==
    LET orphans == FilesWithParentDirectoryNotFound(output)
    IN  {PathParent(orphans[i].path) : i \in 1..Len(orphans)}

\* extract going on to write after it has reported the missing directories
ExtractWritesWithoutReturn(output) ==
    ExtractRows([fs |-> fs, written |-> <<>>, failed |-> FALSE],
                FilesToExtract(output), output)

\* the rest of extract: return when a parent directory is missing, write
\* files_to_extract otherwise
ExtractWrites(output) ==
    IF ParentDirectoryNotFound(output) # {}
    THEN [fs |-> fs, written |-> <<>>, failed |-> FALSE]
    ELSE ExtractRows([fs |-> fs, written |-> <<>>, failed |-> FALSE],
                     FilesToExtract(output), output)

\* extract: click refuses an output that is no existing directory; dry_run
\* is accepted and never read
extract(output, dry_run) ==
    /\ ncmd < MaxCmds
    /\ output # <<>> => IsDir(output[1])
    /\ LET st == ExtractWrites(output)
       IN  /\ fs' = st.fs
           /\ last' = [cmd |-> "extract", output |-> output, dry_run |-> dry_run,
                       warning_files_found |-> WarningFilesFound(output),
                       parent_directory_not_found |-> ParentDirectoryNotFound(output),
                       written |-> st.written, failed |-> st.failed]
    /\ ncmd' = ncmd + 1
    /\ UNCHANGED <<db, fts, today, nfs>>

---------------------------------------------------------------------------
(* search                                                                  *)

SearchLimit == 50

\* the query arguments a user passes
Queries == {<<>>, <<<<"p">>>>, <<<<"H", "T", "M">>>>, <<<<"q">>, <<"p">>>>}

\* the queries among them that single out the files of one name
QueriesStore == {<<<<"H", "T", "M">>>>, <<<<"q">>, <<"p">>>>}

\* " ".join(query)
RECURSIVE JoinSpace(_)
JoinSpace(query) ==
    IF query = <<>> THEN <<>>
    ELSE IF Len(query) = 1 THEN query[1]
    ELSE query[1] \o <<" ">> \o JoinSpace(Tail(query))

IsTokenChar(c) == c \notin {" ", ".", "-", "/", "CR", "LF"}

\* the tokenizer of the full-text index: the maximal runs of letters and
\* digits, case folded
Tokens(text) ==
    {Lower(SubSeq(text, i, j)) : <<i, j>> \in
        {x \in (1..Len(text)) \X (1..Len(text)) :
            /\ x[1] <= x[2]
            /\ \A k \in x[1]..x[2] : IsTokenChar(text[k])
            /\ (x[1] = 1 \/ ~IsTokenChar(text[x[1] - 1]))
            /\ (x[2] = Len(text) \/ ~IsTokenChar(text[x[2] + 1]))}}

\* files_fts match :q, over the columns name and plaintext-content: every
\* term of the query occurs in the entry
Matches(row, full_query) ==
    \A t \in Tokens(full_query) : t \in Tokens(row.name) \cup Tokens(row.plaintext)

\* select rowid from files_fts where files_fts match :q
FtsMatch(entries, full_query) == {e.rowid : e \in {x \in entries : Matches(x, full_query)}}

\* order by added desc: the orders of the rows `hits` in which no row is
\* followed by one of a greater `added`
RECURSIVE SortedDesc(_, _)
SortedDesc(rows, hits) ==
    IF hits = {} THEN {<<>>}
    ELSE UNION {{<<x>> \o o : o \in SortedDesc(rows, hits \ {x})} :
                   x \in {h \in hits : \A g \in hits : ~TextLess(rows[h].added, rows[g].added)}}

\* order by added desc limit 50: the matching rows in an order the sort may
\* produce (rows of equal `added` in any order), cut at the limit
SearchResults(rows, entries, full_query) ==
    LET hits == {i \in 1..Len(rows) : rows[i].rowid \in FtsMatch(entries, full_query)}
        sorted == SortedDesc(rows, hits)
        cut(o) == SubSeq(o, 1, IF Len(o) < SearchLimit THEN Len(o) ELSE SearchLimit)
    IN  {[k \in 1..Len(cut(o)) |->
             [added |-> rows[o[k]].added, name |-> rows[o[k]].name,
              path |-> rows[o[k]].path, size |-> rows[o[k]].size]] : o \in sorted}

\* search: an empty query string is a syntax error of the full-text engine
search(query) ==
    /\ ncmd < MaxCmds
    /\ LET full_query == JoinSpace(query)
       IN  IF full_query = <<>>
           THEN last' = [cmd |-> "search", query |-> query, entries |-> <<>>,
                         failed |-> TRUE]
           ELSE \E entries \in SearchResults(db, fts, full_query) :
                    last' = [cmd |-> "search", query |-> query, entries |-> entries,
                             failed |-> FALSE]
    /\ ncmd' = ncmd + 1
    /\ UNCHANGED <<fs, db, fts, today, nfs>>

---------------------------------------------------------------------------
(* The environment: the filesystem changes between commands, days pass.    *)
(* `last` is the report of the command that has just ended (for index also *)
(* `rerun`: the command before it, with no filesystem change in between,   *)
(* was index with the same arguments); it is dropped once the filesystem   *)
(* has moved on.                                                           *)

NoReport == [cmd |-> "none"]

WriteFile(n, bytes) ==
    /\ nfs < MaxFsOps
    /\ IsDir(PathParent(n))
    /\ fs[n] # File(bytes)
    /\ fs' = [fs EXCEPT ![n] = File(bytes)]
    /\ nfs' = nfs + 1
    /\ last' = NoReport
    /\ UNCHANGED <<db, fts, today, ncmd>>

RemoveFile(n) ==
    /\ nfs < MaxFsOps
    /\ fs[n].kind = "file"
    /\ fs' = [fs EXCEPT ![n] = Absent]
    /\ nfs' = nfs + 1
    /\ last' = NoReport
    /\ UNCHANGED <<db, fts, today, ncmd>>

\* rm -r d
RemoveDir(d) ==
    /\ nfs < MaxFsOps
    /\ fs[d].kind = "dir"
    /\ fs' = [n \in Nodes |-> IF IsPrefix(d, n) THEN Absent ELSE fs[n]]
    /\ nfs' = nfs + 1
    /\ last' = NoReport
    /\ UNCHANGED <<db, fts, today, ncmd>>

MakeDir(d) ==
    /\ nfs < MaxFsOps
    /\ fs[d].kind = "absent"
    /\ IsDir(PathParent(d))
    /\ fs' = [fs EXCEPT ![d] = Dir]
    /\ nfs' = nfs + 1
    /\ last' = NoReport
    /\ UNCHANGED <<db, fts, today, ncmd>>

Midnight ==
    /\ today < MaxTicks
    /\ today' = today + 1
    /\ UNCHANGED <<fs, db, fts, last, ncmd, nfs>>

---------------------------------------------------------------------------
(* The specification                                                       *)

\* a fresh store (initialize_db creates the empty table) and the tree
\* r/{a.html, c.txt, s/{a.html, b.HTM}} beside an empty directory o
InitFs ==
    [n \in Nodes |->
        IF n \in FixedDirs \cup DirNodes THEN Dir
        ELSE IF n = JoinPath(d_r, n_a_html) THEN File(<<"p">>)
        ELSE IF n = JoinPath(d_r, n_c_txt) THEN File(<<"p">>)
        ELSE IF n = JoinPath(d_s, n_a_html) THEN File(<<"q", "CR", "LF", "p">>)
        ELSE IF n = JoinPath(d_s, n_b_HTM) THEN File(<<"p">>)
        ELSE Absent]

Init ==
    /\ fs = InitFs
    /\ db = <<>>
    /\ fts = {}
    /\ today = 0
    /\ last = NoReport
    /\ ncmd = 0
    /\ nfs = 0

Next ==
    \/ \E input_dirs \in InputDirLists, store_binary \in BOOLEAN, recursive \in BOOLEAN :
          index(input_dirs, store_binary, recursive)
    \/ \E dry_run \in BOOLEAN : purge(dry_run)
    \/ \E output \in Outputs, dry_run \in BOOLEAN : extract(output, dry_run)
    \/ \E n \in EnvFiles, bytes \in Contents : WriteFile(n, bytes)
    \/ \E n \in EnvFiles : RemoveFile(n)
    \/ \E d \in DirNodes : RemoveDir(d)
    \/ \E d \in DirNodes : MakeDir(d)

\* the commands that change the store or the filesystem, between changes
\* the environment makes to the filesystem
Spec == Init /\ [][Next]_vars

\* the commands that read and write the store as the days pass, on a
\* filesystem left alone (search changes neither the store nor a file)
NextClock ==
    \/ \E input_dirs \in InputDirListsClock, store_binary \in BOOLEAN, recursive \in BOOLEAN :
          index(input_dirs, store_binary, recursive)
    \/ \E dry_run \in BOOLEAN : purge(dry_run)
    \/ \E query \in Queries : search(query)
    \/ Midnight

SpecClock == Init /\ [][NextClock]_vars

\* the commands that read and write the store, the root spelled in every
\* way, while files disappear from the tree
NextStore ==
    \/ \E input_dirs \in InputDirListsSpelled, store_binary \in BOOLEAN, recursive \in BOOLEAN :
          index(input_dirs, store_binary, recursive)
    \/ \E dry_run \in BOOLEAN : purge(dry_run)
    \/ \E query \in QueriesStore : search(query)
    \/ \E n \in EnvFiles : RemoveFile(n)

SpecStore == Init /\ [][NextStore]_vars

---------------------------------------------------------------------------
(* Properties                                                              *)

\* the step is a command of the given name running to its end
CommandStep(cmd) == ncmd' = ncmd + 1 /\ last'.cmd = cmd

\* C1 (as stated): when index is run twice in a row on the same directory
\* with the same options and the filesystem is left alone in between, the
\* second run reports indexed = 0 and already_indexed = the first run's
\* indexed count, and the store holds as many rows as after the first run.
\* (The first run is the first with these arguments, not itself a repeat.)
C1_SecondRunCountsFirstRunsIndexed ==
    [][(/\ CommandStep("index")
        /\ last'.rerun /\ ~last.rerun
        /\ Len(last'.input_dirs) = 1)
          => /\ last'.indexed = 0
             /\ last'.already_indexed = last.indexed
             /\ Len(db') = Len(db)]_vars

\* C1 (amended): under the same conditions the second run reports
\* indexed = 0 and already_indexed = the first run's indexed count plus the
\* first run's already_indexed count, and the store is left as it was.
C1_SecondRunCountsFirstRunsVisits ==
    [][(CommandStep("index") /\ last'.rerun)
          => /\ last'.indexed = 0
             /\ last'.already_indexed = last.indexed + last.already_indexed
             /\ db' = db]_vars

\* a second run on r and its subdirectory has just found the three files
\* that the first run indexed
C1_Witness ==
    /\ last.cmd = "index" /\ last.rerun /\ ncmd = 2
    /\ Len(last.input_dirs) = 1 /\ last.recursive
    /\ last.indexed = 0 /\ last.already_indexed = 3 /\ Len(db) = 3

\* C2: in every reachable state no two rows have the same path, every row's
\* id is identify(path) of its own path, and no two rows have the same id.
C2_PathUniqueness ==
    /\ \A i, j \in 1..Len(db) :
          i # j => db[i].path # db[j].path /\ db[i].id # db[j].id
    /\ \A i \in 1..Len(db) : db[i].id = identify(db[i].path)

\* index over a root and a directory nested in it has met files again and
\* added others; rows of two directories with the same file name are stored
C2_Witness ==
    /\ last.cmd = "index" /\ Len(last.input_dirs) = 2
    /\ last.indexed > 0 /\ last.already_indexed > 0
    /\ \E i, j \in 1..Len(db) : i # j /\ db[i].name = db[j].name

\* the rows purge is to delete: null content and a path that does not exist
PurgeTarget(r) == r.content = <<>> /\ ~Exists(r.path)

\* C3: purge without dry_run deletes exactly the rows with null content
\* whose path does not exist; every other row stays, unchanged and in place.
C3_PurgeCorrect ==
    [][(CommandStep("purge") /\ ~last'.dry_run)
          => db' = SelectSeq(db, LAMBDA r : ~PurgeTarget(r))]_vars

\* purge has deleted a row and kept a null-content row whose file exists
\* and a row with content whose file is gone
C3_Witness ==
    /\ last.cmd = "purge" /\ ~last.dry_run /\ last.missing_files_found > 0
    /\ \E i \in 1..Len(db) : db[i].content = <<>> /\ Exists(db[i].path)
    /\ \E i \in 1..Len(db) : db[i].content # <<>> /\ ~Exists(db[i].path)

\* C4: purge with dry_run leaves the store as it was and reports the number
\* of rows purge without dry_run would delete from the same state.
C4_PurgeDryRun ==
    [][(CommandStep("purge") /\ last'.dry_run)
          => /\ db' = db
             /\ last'.missing_files_found =
                    Len(db) - Len(PurgeRows([db |-> db, fts |-> fts, missing_files_found |-> 0],
                                            NullContentRows(db), FALSE).db)
             /\ last'.missing_files_found =
                    Cardinality({i \in 1..Len(db) : PurgeTarget(db[i])})]_vars

\* a dry run has reported missing files, and left their rows in the store
C4_Witness ==
    /\ last.cmd = "purge" /\ last.dry_run /\ last.missing_files_found > 0
    /\ \E i \in 1..Len(db) : PurgeTarget(db[i])

\* C5 (as stated): extract with dry_run writes no file: the filesystem after
\* the command is the filesystem before it, with or without an output
\* directory.
C5_ExtractDryRunWritesNothing ==
    [][(CommandStep("extract") /\ last'.dry_run) => fs' = fs]_vars

\* the rows extract cannot write back: content, no file and no parent directory
Orphan(r) == r.content # <<>> /\ ~Exists(r.path) /\ ~Exists(PathParent(r.path))

\* C6: extract without an output directory, when some row with content has
\* neither its file nor its parent directory, writes no file at all and
\* reports the set of the missing parent directories.
C6_ExtractAbortOnOrphan ==
    [][(/\ CommandStep("extract")
        /\ last'.output = <<>>
        /\ \E i \in 1..Len(db) : Orphan(db[i]))
          => /\ fs' = fs
             /\ last'.written = <<>>
             /\ last'.parent_directory_not_found =
                    {PathParent(db[i].path) : i \in {j \in 1..Len(db) : Orphan(db[j])}}]_vars

\* extract has stopped on a missing directory while another row with
\* content, its file gone and its directory there, was ready to be written
C6_Witness ==
    /\ last.cmd = "extract" /\ last.output = <<>>
    /\ last.parent_directory_not_found # {}
    /\ \E i \in 1..Len(db) :
          db[i].content # <<>> /\ ~Exists(db[i].path) /\ Exists(PathParent(db[i].path))

\* C7: a row with content whose destination exists when extract starts is
\* not written: the destination is not among the files the command writes,
\* it holds afterwards what it held before, and the count of files already
\* found counts every such row.
C7_ExtractSkipOnPresent ==
    [][CommandStep("extract")
          => LET present == {i \in 1..Len(db) :
                                /\ db[i].content # <<>>
                                /\ Exists(Destination(last'.output, db[i]))}
             IN  /\ \A i \in present :
                       LET dest == Absolute(Destination(last'.output, db[i]))
                       IN  /\ \A k \in 1..Len(last'.written) : last'.written[k] # dest
                           /\ fs'[dest] = fs[dest]
                 /\ last'.warning_files_found = Cardinality(present)]_vars

\* extract has skipped a file found at its destination and written another
C7_Witness ==
    /\ last.cmd = "extract"
    /\ last.warning_files_found > 0
    /\ last.written # <<>>

\* the date a row was created on, read back from its `added`
Created(r) ==
    LET n(k) == CharOrd(r.added[k]) - 48
    IN  [d |-> 10 * n(1) + n(2), m |-> 10 * n(4) + n(5),
         y |-> 1000 * n(7) + 100 * n(8) + 10 * n(9) + n(10)]

\* date a is earlier than date b
Earlier(a, b) ==
    \/ a.y < b.y
    \/ a.y = b.y /\ a.m < b.m
    \/ a.y = b.y /\ a.m = b.m /\ a.d < b.d

\* C8 (as stated): search returns at most 50 rows, each matching the query,
\* newest first: no returned row is followed by one created later, and no
\* matching row left out was created later than a returned row.
C8_SearchNewestFirst ==
    (last.cmd = "search" /\ ~last.failed)
        => LET e == last.entries
               q == JoinSpace(last.query)
               returned == {e[k].path : k \in 1..Len(e)}
           IN  /\ Len(e) <= SearchLimit
               /\ \A k \in 1..Len(e) :
                     \E i \in 1..Len(db) : db[i].path = e[k].path /\ Matches(db[i], q)
               /\ \A i, j \in 1..Len(e) :
                     i < j => ~Earlier(Created(e[i]), Created(e[j]))
               /\ \A i \in 1..Len(db), k \in 1..Len(e) :
                     (Matches(db[i], q) /\ db[i].path \notin returned)
                         => ~Earlier(Created(e[k]), Created(db[i]))

\* the name ends with the extension, whatever the case of its letters
EndsWithFolded(name, ext) ==
    /\ Len(name) > Len(ext)
    /\ Lower(SubSeq(name, Len(name) - Len(ext) + 1, Len(name))) = ext

\* the paths index is to store for a root: the regular files with an HTML
\* extension in the root, or anywhere under it when recursive
HtmlFilesUnder(root, recursive) ==
    {root \o SubSeq(n, Len(Absolute(root)) + 1, Len(n)) : n \in
        {m \in FileNodes :
            /\ fs[m].kind = "file"
            /\ IsPrefix(Absolute(root), m)
            /\ recursive \/ Len(m) = Len(Absolute(root)) + 1
            /\ \/ EndsWithFolded(PathName(m), <<".", "h", "t", "m", "l">>)
               \/ EndsWithFolded(PathName(m), <<".", "h", "t", "m">>)}}

\* C9: on an empty store, index with recursive stores one row for each file
\* of the tree under its roots whose extension is .html or .htm in any case
\* of letters and for no other file; without recursive, one row for each
\* such file directly in a root and for no file of a subdirectory.
C9_RecursiveCompleteness ==
    [][(CommandStep("index") /\ db = <<>>)
          => LET wanted == UNION {HtmlFilesUnder(last'.input_dirs[k], last'.recursive) :
                                     k \in 1..Len(last'.input_dirs)}
             IN  /\ {db'[i].path : i \in 1..Len(db')} = wanted
                 /\ Len(db') = Cardinality(wanted)]_vars

\* the first command, a recursive index of r, has stored a.html, s/a.html
\* and s/b.HTM and left c.txt out; a first index of r without recursive has
\* stored a.html alone although s holds HTML files
C9_Witness ==
    /\ ncmd = 1 /\ last.cmd = "index" /\ last.input_dirs = <<<<n_r>>>>
    /\ IsFile(<<n_r, n_c_txt>>) /\ IsFile(<<n_r, n_s, n_b_HTM>>)
    /\ \/ last.recursive /\ Len(db) = 3
       \/ ~last.recursive /\ Len(db) = 1

\* C10 (as stated): every row index creates without store_binary has null
\* content and every row it creates with store_binary has the file's
\* contents as they are at index time; so purge's query yields a new row
\* exactly without store_binary and extract's query exactly with it.
C10_BinaryStorageToggle ==
    [][CommandStep("index")
          => \A k \in (Len(db) + 1)..Len(db') :
                LET row == db'[k]
                IN  /\ last'.store_binary => row.content = <<Node(row.path).bytes>>
                    /\ ~last'.store_binary => row.content = <<>>
                    /\ (\E i \in 1..Len(NullContentRows(db')) :
                            NullContentRows(db')[i] = row) <=> ~last'.store_binary
                    /\ (\E i \in 1..Len(ContentRows(db')) :
                            ContentRows(db')[i] = row) <=> last'.store_binary]_vars

\* C11 (as stated): every row's path is the absolute path of its file,
\* whatever spelling of the root was passed to index, so that no file has
\* two rows: indexing it through a relative root and through the absolute
\* form of that root yields one row.
C11_StoredPathsAbsolute ==
    /\ \A i \in 1..Len(db) : db[i].path = Absolute(db[i].path)
    /\ \A i, j \in 1..Len(db) :
          Absolute(db[i].path) = Absolute(db[j].path) => i = j

\* C12 (as stated): whenever extract writes a file, its destination does
\* not exist at the moment of the write: no destination the command writes
\* was there when the command started, and none is written twice in one
\* run, also when two rows with content have the same file name and an
\* output directory is given.
C12_ExtractWritesOnlyAbsent ==
    [][CommandStep("extract")
          => LET w == last'.written
             IN  /\ \A k \in 1..Len(w) : fs[w[k]].kind = "absent"
                 /\ \A j, k \in 1..Len(w) : j # k => w[j] # w[k]]_vars

RECURSIVE CandidateVisits(_, _)
CandidateVisits(input_dirs, recursive) ==
    IF input_dirs = <<>> THEN 0
    ELSE Cardinality(HtmlFilesUnder(Head(input_dirs), recursive))
            + CandidateVisits(Tail(input_dirs), recursive)

\* the files those visits are of
CandidateFiles(input_dirs, recursive) ==
    {Absolute(p) : p \in UNION {HtmlFilesUnder(input_dirs[k], recursive) :
                                    k \in 1..Len(input_dirs)}}

\* C14 (as stated): at the end of one index command over any list of roots,
\* indexed is the number of rows the command added, indexed plus
\* already_indexed is the number of visits of candidate files over all the
\* roots, and every visit of a file after the first one in the command is
\* counted as already_indexed: no more visits are counted as indexed than
\* there are files visited.
C14_IndexStatsAccounting ==
    [][CommandStep("index")
          => LET visits == CandidateVisits(last'.input_dirs, last'.recursive)
                 files == CandidateFiles(last'.input_dirs, last'.recursive)
             IN  /\ last'.indexed = Len(db') - Len(db)
                 /\ last'.indexed + last'.already_indexed = visits
                 /\ last'.already_indexed >= visits - Cardinality(files)]_vars

\* C15: in every state index and purge commands lead to, files_fts holds
\* one entry for each row of files, under the row's rowid and with its name
\* and text, and no other entry; so what search returns are rows of the
\* store as it is (none that purge deleted), and, below the limit, every
\* row of the store that matches the query (also one index has just added).
C15_FtsSynchronized ==
    /\ fts = {FtsEntry(db[i]) : i \in 1..Len(db)}
    /\ Cardinality(fts) = Len(db)
    /\ (last.cmd = "search" /\ ~last.failed)
          => LET q == JoinSpace(last.query)
                 matching == {db[i].path : i \in {j \in 1..Len(db) : Matches(db[j], q)}}
                 returned == {last.entries[k].path : k \in 1..Len(last.entries)}
             IN  /\ returned \subseteq matching
                 /\ Cardinality(matching) <= SearchLimit => returned = matching

\* search has returned a row of a store from which purge has deleted the
\* row of the smallest rowid
C15_Witness ==
    /\ last.cmd = "search" /\ ~last.failed /\ last.entries # <<>>
    /\ db # <<>> /\ db[1].rowid > 1
    /\ ncmd = 3

\* the bytes the file of a row held when index stored the row: the one
\* contents of the model with the row's size and the row's text
BytesAtIndexTime(row) ==
    CHOOSE b \in Contents : Len(b) = row.size /\ html2text(ReadText(b)) = row.plaintext

\* C16 (as stated): when every row was stored with store_binary, some of
\* the files have been deleted since, their directories are still there
\* and the files that are left are as they were indexed, extract without
\* output directory and without dry_run brings every stored path back with
\* exactly the contents the file had at index time, leaves the files that
\* were not deleted as they are, and leaves the rows as they are.
C16_StoreAndRestoreRoundTrip ==
    [][(/\ CommandStep("extract") /\ last'.output = <<>> /\ ~last'.dry_run
        /\ \A i \in 1..Len(db) :
              /\ db[i].content # <<>>
              /\ IsDir(PathParent(db[i].path))
              /\ IsFile(db[i].path) => Node(db[i].path).bytes = BytesAtIndexTime(db[i])
        /\ \E i \in 1..Len(db) : ~Exists(db[i].path))
          => /\ \A i \in 1..Len(db) :
                   fs'[Absolute(db[i].path)] = File(BytesAtIndexTime(db[i]))
             /\ \A n \in Nodes : fs[n].kind # "absent" => fs'[n] = fs[n]
             /\ db' = db]_vars

====
